---- MODULE Spec2Model ----
\* cppdep: discovery (read_files / extract_includes), component assignment
\* (assign_files_to_components), include resolution (generate_file_deps) and
\* component aggregation (linked_components), modelled from cppdep.go.
\*
\* Strings are sequences of one-character strings, so that every prefix,
\* suffix and index computation of the program is carried out on characters.
\* Indices returned by the string helpers are 0-based, as in Go; -1 is "absent".
EXTENDS Integers, Sequences, FiniteSets, TLC

VARIABLES
    input,          \* the command line, and which markers the tree holds
    source,         \* per File, the path it was opened at and the lines read
    pc,             \* "walk", "assign", "index", "deps", "print", "done", "panic"
    i_walk,         \* position of filepath.Walk in the tree
    components,     \* project.components
    files,          \* project.files
    diags,          \* the diagnostics printed so far
    path_to_files,  \* the include index of generate_file_deps
    i_file,         \* the file loop of the running pass
    i_inc,          \* the include loop of generate_file_deps
    i_comp,         \* the component loop of print_components
    printed,        \* what linked_components returned to the last print
    run,            \* 1, or 2 once the two passes are run again
    first           \* files and components as the first run left them

vars == <<input, source, pc, i_walk, components, files, diags, path_to_files,
          i_file, i_inc, i_comp, printed, run, first>>

-----------------------------------------------------------------------------
\* Bounds of the model.

\* Total number of source lines in one project tree.
MaxLines == 2

-----------------------------------------------------------------------------
\* Package strings, as the program uses it.

Min(S) == CHOOSE x \in S : \A y \in S : x <= y

Max(S) == CHOOSE x \in S : \A y \in S : x >= y

\* s[a:b]
Slice(s, a, b) == SubSeq(s, a + 1, b)

Occurrences(s, sub) ==
    {k \in 0..(Len(s) - Len(sub)) : SubSeq(s, k + 1, k + Len(sub)) = sub}

Index(s, sub) == IF Occurrences(s, sub) = {} THEN -1 ELSE Min(Occurrences(s, sub))

LastIndex(s, sub) == IF Occurrences(s, sub) = {} THEN -1 ELSE Max(Occurrences(s, sub))

Contains(s, sub) == Index(s, sub) # -1

HasPrefix(s, p) == Len(p) <= Len(s) /\ SubSeq(s, 1, Len(p)) = p

HasSuffix(s, p) == Len(p) <= Len(s) /\ SubSeq(s, Len(s) - Len(p) + 1, Len(s)) = p

TrimPrefix(s, p) == IF HasPrefix(s, p) THEN SubSeq(s, Len(p) + 1, Len(s)) ELSE s

TrimSuffix(s, p) == IF HasSuffix(s, p) THEN SubSeq(s, 1, Len(s) - Len(p)) ELSE s

AnyPositions(s, chars) == {k \in 0..(Len(s) - 1) : s[k + 1] \in chars}

IndexAny(s, chars) == IF AnyPositions(s, chars) = {} THEN -1 ELSE Min(AnyPositions(s, chars))

LastIndexAny(s, chars) == IF AnyPositions(s, chars) = {} THEN -1 ELSE Max(AnyPositions(s, chars))

-----------------------------------------------------------------------------
\* String literals of the program.

EMPTY == << >>

SLASH == <<"/">>

MARKER == <<"C", "M", "a", "k", "e", "L", "i", "s", "t", "s", ".", "t", "x", "t">>

SLASH_MARKER == SLASH \o MARKER

INCLUDE == <<"#", "i", "n", "c", "l", "u", "d", "e">>

BACKSLASH == <<"\\">>

DOTDOT == <<".", ".">>

OPENERS == {"\"", "<"}

CLOSERS == {"\"", ">"}

source_suffixes ==
    << <<".", "c", "p", "p">>, <<".", "h", "p", "p">>, <<".", "c">>, <<".", "h">> >>

ignore_patterns ==
    << <<".", "s", "v", "n">>, <<"d", "e", "v", "/", "t", "o", "o", "l", "s">> >>

\* The nil *component.
NIL == 0

-----------------------------------------------------------------------------
\* extract_includes: the inclusion strings of a file's lines, and the
\* diagnostics printed on the way.  A diagnostic is <<kind, path, text>>.

\* ExtractFrom without the test for "..".
RECURSIVE ExtractFromKeepingDotDot(_, _, _, _, _)
ExtractFromKeepingDotDot(lines, k, path, warn_malformed, acc) ==
    IF k > Len(lines) THEN acc
    ELSE LET line == lines[k]
             iStart == IndexAny(line, OPENERS)
             iEnd == LastIndexAny(line, CLOSERS)
             include_path == Slice(line, iStart + 1, iEnd)
             warned == [acc EXCEPT !.diags =
                            Append(@, <<"malformed", path, line>>)]
             warned2 == [acc EXCEPT !.diags =
                            Append(@, <<"malformed", path, include_path>>)]
         IN  IF ~HasPrefix(line, INCLUDE)
             THEN ExtractFromKeepingDotDot(lines, k + 1, path, warn_malformed, acc)
             ELSE IF iStart = -1 \/ iEnd = -1 \/ iStart >= iEnd
             THEN ExtractFromKeepingDotDot(lines, k + 1, path, warn_malformed,
                              IF warn_malformed THEN warned ELSE acc)
             ELSE IF Contains(include_path, BACKSLASH)
             THEN ExtractFromKeepingDotDot(lines, k + 1, path, warn_malformed,
                              IF warn_malformed THEN warned2 ELSE acc)
             ELSE ExtractFromKeepingDotDot(lines, k + 1, path, warn_malformed,
                              [acc EXCEPT !.results = Append(@, include_path)])

RECURSIVE ExtractFrom(_, _, _, _, _)
ExtractFrom(lines, k, path, warn_malformed, acc) ==
    IF k > Len(lines) THEN acc
    ELSE LET line == lines[k]
             iStart == IndexAny(line, OPENERS)
             iEnd == LastIndexAny(line, CLOSERS)
             include_path == Slice(line, iStart + 1, iEnd)
             warned == [acc EXCEPT !.diags =
                            Append(@, <<"malformed", path, line>>)]
             warned2 == [acc EXCEPT !.diags =
                            Append(@, <<"malformed", path, include_path>>)]
         IN  IF ~HasPrefix(line, INCLUDE)
             THEN ExtractFrom(lines, k + 1, path, warn_malformed, acc)
             ELSE IF iStart = -1 \/ iEnd = -1 \/ iStart >= iEnd
             THEN ExtractFrom(lines, k + 1, path, warn_malformed,
                              IF warn_malformed THEN warned ELSE acc)
             ELSE IF Contains(include_path, BACKSLASH) \/ Contains(include_path, DOTDOT)
             THEN ExtractFrom(lines, k + 1, path, warn_malformed,
                              IF warn_malformed THEN warned2 ELSE acc)
             ELSE ExtractFrom(lines, k + 1, path, warn_malformed,
                              [acc EXCEPT !.results = Append(@, include_path)])

extract_includes(lines, path, flags) ==
    ExtractFrom(lines, 1, path, flags.warn_malformed, [results |-> << >>, diags |-> << >>])

-----------------------------------------------------------------------------
\* The directory trees and command lines the model runs the program on.

J(a, b) == a \o SLASH \o b

n_svn == <<".", "s", "v", "n">>

n_a == <<"a">>

n_b == <<"b">>

n_bc == <<"b", "c">>

n_c == <<"c">>

n_lib == <<"l", "i", "b">>

n_dh == <<"d", ".", "h">>

n_eh == <<"e", ".", "h">>

n_uh == <<"u", ".", "h">>

n_xh == <<"x", ".", "h">>

n_zh == <<"z", ".", "h">>

n_main == <<"m", ".", "c", "p", "p">>

Inc(open, body, close) == INCLUDE \o <<" ">> \o open \o body \o close

\* #include "u.h", #include <lib/u.h>, #include "c/d.h", #include "z.h"
GoodLines ==
    { Inc(<<"\"">>, n_uh, <<"\"">>),
      Inc(<<"<">>, J(n_lib, n_uh), <<">">>),
      Inc(<<"\"">>, J(n_c, n_dh), <<"\"">>),
      Inc(<<"\"">>, n_zh, <<"\"">>) }

\* #include "a\b.h", #include "../u.h", #include "u.h, #include u.h,
\* #include >u.h<, and a line that is no include
OddLines ==
    { Inc(<<"\"">>, <<"a", "\\", "b", ".", "h">>, <<"\"">>),
      Inc(<<"\"">>, J(DOTDOT, n_uh), <<"\"">>),
      Inc(<<"\"">>, n_uh, << >>),
      Inc(<< >>, n_uh, << >>),
      Inc(<<">">>, n_uh, <<"<">>),
      <<"i", "n", "t">> }

AllLines == GoodLines \cup OddLines

SeqsUpTo(U, n) == UNION {[1..k -> U] : k \in 0..n}

Roots == { <<"r", "/">>, <<".">> }

Markers == {1, 2, 3}

\* The entries of the tree in the order filepath.Walk visits them (lexical
\* within a directory).  mark: 0 for an entry of every tree, else the number of
\* an optional marker file.  lines: whether the model lets the file hold lines.
Entries ==
    << [name |-> n_svn, dir |-> TRUE, mark |-> 0, lines |-> FALSE],
       [name |-> J(n_svn, n_eh), dir |-> FALSE, mark |-> 0, lines |-> FALSE],
       [name |-> MARKER, dir |-> FALSE, mark |-> 1, lines |-> FALSE],
       [name |-> J(n_a, MARKER), dir |-> FALSE, mark |-> 2, lines |-> FALSE],
       [name |-> J(J(n_a, n_b), MARKER), dir |-> FALSE, mark |-> 3, lines |-> FALSE],
       [name |-> J(J(J(n_a, n_b), n_c), n_dh), dir |-> FALSE, mark |-> 0, lines |-> TRUE],
       [name |-> J(J(n_a, n_b), n_uh), dir |-> FALSE, mark |-> 0, lines |-> FALSE],
       [name |-> J(J(n_a, n_bc), n_xh), dir |-> FALSE, mark |-> 0, lines |-> FALSE],
       [name |-> J(n_a, n_uh), dir |-> FALSE, mark |-> 0, lines |-> FALSE],
       [name |-> J(n_lib, MARKER), dir |-> FALSE, mark |-> 0, lines |-> FALSE],
       [name |-> J(n_lib, n_uh), dir |-> FALSE, mark |-> 0, lines |-> FALSE],
       [name |-> n_main, dir |-> FALSE, mark |-> 0, lines |-> TRUE] >>

\* The tree the program is run on.
Tree == SelectSeq(Entries, LAMBDA e : e.mark = 0 \/ e.mark \in input.marks)

\* The fully marked tree under root "r/": the one whose files may also hold
\* malformed lines, and the one warn_malformed is set on.
FullyMarked(root, marks) == root = <<"r", "/">> /\ marks = Markers

Inputs ==
    { in \in
        { [root |-> root, marks |-> marks,
           flags |-> [components |-> << >>, warn_missing |-> wmiss,
                      warn_malformed |-> wmal]] :
            root \in Roots, marks \in SUBSET Markers, wmiss \in BOOLEAN,
            wmal \in BOOLEAN } :
        in.flags.warn_malformed => FullyMarked(in.root, in.marks) }

\* The number of lines read so far.
RECURSIVE LinesRead(_, _)
LinesRead(src, k) == IF k > Len(src) THEN 0 ELSE Len(src[k].lines) + LinesRead(src, k + 1)

\* What a file may hold when it is opened: nothing, for most; well-formed
\* includes within the budget of lines; every kind of line, for the first file
\* with lines of the fully marked tree.
Contents(e) ==
    IF ~e.lines THEN { << >> }
    ELSE IF FullyMarked(input.root, input.marks) /\ LinesRead(source, 1) = 0
         THEN SeqsUpTo(GoodLines, MaxLines) \cup
              (IF e.name = n_main THEN SeqsUpTo(AllLines, MaxLines) ELSE {})
         ELSE SeqsUpTo(GoodLines, MaxLines - LinesRead(source, 1))

-----------------------------------------------------------------------------
\* read_files

\* project.root
Root == TrimSuffix(input.root, SLASH)

\* filepath.Join(root, name), the path Walk hands to the callback
WalkPath(name) == IF Root = <<".">> THEN name ELSE Root \o SLASH \o name

\* info.Name()
Name(path) == Slice(path, LastIndex(path, SLASH) + 1, Len(path))

rel_path(path) == TrimPrefix(TrimPrefix(path, Root), SLASH)

Ignored(path) == \E k \in 1..Len(ignore_patterns) : Contains(path, ignore_patterns[k])

\* filepath.SkipDir: a directory's entries are skipped; returned for a file,
\* the rest of its directory is.
SkipScope(e) ==
    IF e.dir THEN e.name \o SLASH
    ELSE IF LastIndex(e.name, SLASH) = -1 THEN EMPTY
    ELSE Slice(e.name, 0, LastIndex(e.name, SLASH) + 1)

AfterSkip(k) ==
    LET scope == SkipScope(Tree[k])
        rest == {j \in (k + 1)..Len(Tree) : ~HasPrefix(Tree[j].name, scope)}
    IN  IF rest = {} THEN Len(Tree) + 1 ELSE Min(rest)

RECURSIVE Repeat(_, _)
Repeat(s, n) == IF n = 0 THEN << >> ELSE s \o Repeat(s, n - 1)

new_file(path, include_paths) ==
    [path |-> rel_path(path), include_paths |-> include_paths, component |-> NIL,
     incoming_links |-> << >>, outgoing_links |-> << >>]

\* The pass after the walk: an empty file loop falls through.
AfterWalk(k, fs) ==
    IF k <= Len(Tree) THEN "walk" ELSE IF Len(fs) = 0 THEN "index" ELSE "assign"

\* The Walk callback returning filepath.SkipDir.
VisitIgnored ==
    /\ pc = "walk"
    /\ Ignored(WalkPath(Tree[i_walk].name))
    /\ i_walk' = AfterSkip(i_walk)
    /\ pc' = AfterWalk(i_walk', files)
    /\ UNCHANGED <<input, source, components, files, diags, path_to_files, i_file,
                   i_inc, i_comp, printed, run, first>>

\* The Walk callback on an entry that is not ignored; extract_includes opens
\* the file and reads its lines.
Visit ==
    /\ pc = "walk"
    /\ \E lines \in Contents(Tree[i_walk]) :
         LET e == Tree[i_walk]
             path == WalkPath(e.name)
             n == Len(SelectSeq(source_suffixes, LAMBDA s : HasSuffix(path, s)))
             ex == extract_includes(lines, path, input.flags)
         IN  /\ ~Ignored(path)
             /\ components' =
                  IF Name(path) = MARKER
                  THEN Append(components,
                              [path |-> rel_path(TrimSuffix(path, SLASH_MARKER)),
                               files |-> << >>])
                  ELSE components
             /\ files' = files \o Repeat(<<new_file(path, ex.results)>>, n)
             /\ diags' = diags \o Repeat(ex.diags, n)
             /\ source' = source \o Repeat(<<[path |-> path, lines |-> lines]>>, n)
    /\ i_walk' = i_walk + 1
    /\ pc' = AfterWalk(i_walk', files')
    /\ UNCHANGED <<input, path_to_files, i_file, i_inc, i_comp, printed, run, first>>

-----------------------------------------------------------------------------
\* assign_files_to_components

\* MatchingComponent with the comparison c.path == path weakened to a string
\* prefix test.
MatchingComponentByPrefix(comps, path) ==
    LET hits == {i_c \in 1..Len(comps) : HasPrefix(path, comps[i_c].path)}
    IN  IF hits = {} THEN NIL ELSE Min(hits)

\* The first component, in project order, whose path is `path`; NIL if none.
MatchingComponent(comps, path) ==
    LET hits == {i_c \in 1..Len(comps) : comps[i_c].path = path}
    IN  IF hits = {} THEN NIL ELSE Min(hits)

\* The candidate loop: strip the last segment, look the rest up, repeat until
\* a component matches or the path has no "/" left.
RECURSIVE FindComponent(_, _)
FindComponent(comps, path0) ==
    LET idx == LastIndex(path0, SLASH)
        path == IF idx # -1 THEN Slice(path0, 0, idx) ELSE EMPTY
        i_c == MatchingComponent(comps, path)
    IN  IF i_c # NIL THEN i_c
        ELSE IF idx = -1 THEN NIL
        ELSE FindComponent(comps, path)

\* One iteration of the file loop.
AssignFile ==
    /\ pc = "assign"
    /\ LET i_c == FindComponent(components, files[i_file].path)
       IN  IF i_c # NIL
           THEN /\ components' = [components EXCEPT ![i_c].files = Append(@, i_file)]
                /\ files' = [files EXCEPT ![i_file].component = i_c]
           ELSE UNCHANGED <<components, files>>
    /\ i_file' = i_file + 1
    /\ pc' = IF i_file' > Len(files) THEN "index" ELSE "assign"
    /\ UNCHANGED <<input, source, i_walk, diags, path_to_files, i_inc, i_comp, printed,
                   run, first>>

-----------------------------------------------------------------------------
\* generate_file_deps

\* Keys registering a file under its path and its base name only.
KeysPathAndBase(path) ==
    IF LastIndex(path, SLASH) = -1 THEN <<path>>
    ELSE <<path, Slice(path, LastIndex(path, SLASH) + 1, Len(path))>>

\* The keys one file is registered under: its path, then what is left after
\* each leading segment is stripped in turn.
RECURSIVE Keys(_)
Keys(path) ==
    LET idx == Index(path, SLASH)
    IN  IF idx = -1 THEN <<path>>
        ELSE <<path>> \o Keys(Slice(path, idx + 1, Len(path)))

\* The keys of every file, in file order.
RECURSIVE KeysOf(_, _)
KeysOf(fs, k) ==
    IF k > Len(fs) THEN << >> ELSE <<Keys(fs[k].path)>> \o KeysOf(fs, k + 1)

\* The files appended under `key`, in file order; keys[k] are the keys of file k.
RECURSIVE RegisteredUnder(_, _, _)
RegisteredUnder(keys, key, k) ==
    IF k > Len(keys) THEN << >>
    ELSE Repeat(<<k>>, Len(SelectSeq(keys[k], LAMBDA x : x = key)))
         \o RegisteredUnder(keys, key, k + 1)

BuildIndex(fs) ==
    LET keys == KeysOf(fs, 1)
    IN  [key \in UNION {{keys[k][j] : j \in 1..Len(keys[k])} : k \in 1..Len(keys)}
            |-> RegisteredUnder(keys, key, 1)]

\* The next position of the two nested loops at or after (f, k) that holds an
\* include; <<Len(fs) + 1, 1>> when the loops are over.
RECURSIVE NextInclude(_, _, _)
NextInclude(fs, f, k) ==
    IF f > Len(fs) THEN <<f, 1>>
    ELSE IF k <= Len(fs[f].include_paths) THEN <<f, k>>
    ELSE NextInclude(fs, f + 1, 1)

\* The first loop: the index is built.
GenerateIndex ==
    /\ pc = "index"
    /\ path_to_files' = BuildIndex(files)
    /\ LET nxt == NextInclude(files, 1, 1)
       IN  /\ i_file' = nxt[1]
           /\ i_inc' = nxt[2]
           /\ pc' = IF nxt[1] > Len(files) THEN "print" ELSE "deps"
    /\ i_comp' = 1
    /\ UNCHANGED <<input, source, i_walk, components, files, diags, printed, run, first>>

\* is_present_in_this_component that never finds the component.
is_present_never(fs, f, deps) == FALSE

\* is_present_in_this_component that leaves the loop after the first dep.
is_present_first_only(fs, f, deps) ==
    Len(deps) > 0 /\ fs[deps[1]].component = fs[f].component

is_present_in_this_component(fs, f, deps) ==
    \E k \in 1..Len(deps) : fs[deps[k]].component = fs[f].component

\* AddLinks recording the incoming link on the including file instead of on dep.
RECURSIVE AddLinksIncomingOnSource(_, _, _, _)
AddLinksIncomingOnSource(fs, f, deps, k) ==
    IF k > Len(deps) THEN fs
    ELSE LET out == [fs EXCEPT ![f].outgoing_links = Append(@, deps[k])]
             both == [out EXCEPT ![f].incoming_links = Append(@, deps[k])]
         IN  AddLinksIncomingOnSource(both, f, deps, k + 1)

\* The inner loop over deps: an outgoing link on f and an incoming link on dep.
RECURSIVE AddLinks(_, _, _, _)
AddLinks(fs, f, deps, k) ==
    IF k > Len(deps) THEN fs
    ELSE LET out == [fs EXCEPT ![f].outgoing_links = Append(@, deps[k])]
             both == [out EXCEPT ![deps[k]].incoming_links = Append(@, f)]
         IN  AddLinks(both, f, deps, k + 1)

\* Resolve that adds the links of an include string only where the including
\* file does not hold them yet.
ResolveUnlessLinked(fs, idx, f, include) ==
    IF /\ include \in DOMAIN idx
       /\ ~is_present_in_this_component(fs, f, idx[include])
       /\ \A k \in 1..Len(idx[include]) :
            \A j \in 1..Len(fs[f].outgoing_links) :
                fs[f].outgoing_links[j] # idx[include][k]
    THEN AddLinks(fs, f, idx[include], 1)
    ELSE fs

\* What one include string of file f does to the files.
Resolve(fs, idx, f, include) ==
    IF include \in DOMAIN idx /\ ~is_present_in_this_component(fs, f, idx[include])
    THEN AddLinks(fs, f, idx[include], 1)
    ELSE fs

\* One iteration of the include loop.
ResolveInclude ==
    /\ pc = "deps"
    /\ LET include == files[i_file].include_paths[i_inc]
           nxt == NextInclude(files, i_file, i_inc + 1)
       IN  /\ files' = Resolve(files, path_to_files, i_file, include)
           /\ diags' = IF include \notin DOMAIN path_to_files /\ input.flags.warn_missing
                       THEN Append(diags, <<"missing", files[i_file].path, include>>)
                       ELSE diags
           /\ i_file' = nxt[1]
           /\ i_inc' = nxt[2]
           /\ pc' = IF nxt[1] > Len(files) THEN "print" ELSE "deps"
    /\ UNCHANGED <<input, source, i_walk, components, path_to_files, i_comp, printed,
                   run, first>>

-----------------------------------------------------------------------------
\* linked_components and print_components

nice_name(c) == IF c.path = EMPTY THEN <<".">> ELSE c.path

\* in.component.path with in.component nil: a nil pointer dereference.
Dereferences(fs, comps, c) ==
    \E k \in 1..Len(comps[c].files) :
        LET f == fs[comps[c].files[k]]
        IN  \/ \E j \in 1..Len(f.incoming_links) : fs[f.incoming_links[j]].component = NIL
            \/ \E j \in 1..Len(f.outgoing_links) : fs[f.outgoing_links[j]].component = NIL

\* The edges of component c by file and link, in the order the loops meet them.
RECURSIVE EdgesOf(_, _, _, _, _, _)
EdgesOf(fs, comps, c, incoming, k, j) ==
    IF k > Len(comps[c].files) THEN << >>
    ELSE LET f == comps[c].files[k]
             links == IF incoming THEN fs[f].incoming_links ELSE fs[f].outgoing_links
         IN  IF j > Len(links) THEN EdgesOf(fs, comps, c, incoming, k + 1, 1)
             ELSE LET e == IF incoming THEN [from |-> links[j], to |-> f]
                                       ELSE [from |-> f, to |-> links[j]]
                      other == fs[links[j]].component
                  IN  (IF comps[other].path # comps[c].path
                       THEN <<[component |-> other, edge |-> e]>> ELSE << >>)
                      \o EdgesOf(fs, comps, c, incoming, k, j + 1)

\* The map of linked_components as the list it is turned into; the order of
\* the list is the map's iteration order, so the list is modelled as a set.
Dependencies(fs, comps, c, incoming) ==
    LET es == EdgesOf(fs, comps, c, incoming, 1, 1)
        keys == {es[k].component : k \in 1..Len(es)}
        Bucket(d) == SelectSeq(es, LAMBDA x : x.component = d)
    IN  {[component |-> d,
          edges |-> [k \in 1..Len(Bucket(d)) |-> Bucket(d)[k].edge]] : d \in keys}

linked_components(fs, comps, c) ==
    [in |-> Dependencies(fs, comps, c, TRUE), out |-> Dependencies(fs, comps, c, FALSE)]

should_print(c) ==
    \/ Len(input.flags.components) = 0
    \/ \E k \in 1..Len(input.flags.components) : input.flags.components[k] = nice_name(c)

\* The pass after the include loop; a project without components prints nothing.
AfterPrint(k) == IF k > Len(components) THEN "done" ELSE "print"

\* One iteration of the component loop: the component is printed.
PrintComponent ==
    /\ pc = "print"
    /\ i_comp <= Len(components)
    /\ ~(should_print(components[i_comp]) /\ Dereferences(files, components, i_comp))
    /\ printed' = IF should_print(components[i_comp])
                  THEN [component |-> i_comp,
                        deps |-> linked_components(files, components, i_comp)]
                  ELSE printed
    /\ i_comp' = i_comp + 1
    /\ pc' = AfterPrint(i_comp')
    /\ UNCHANGED <<input, source, i_walk, components, files, diags, path_to_files, i_file,
                   i_inc, run, first>>

\* One iteration of the component loop: linked_components dereferences nil.
PrintPanics ==
    /\ pc = "print"
    /\ i_comp <= Len(components)
    /\ should_print(components[i_comp])
    /\ Dereferences(files, components, i_comp)
    /\ pc' = "panic"
    /\ UNCHANGED <<input, source, i_walk, components, files, diags, path_to_files, i_file,
                   i_inc, i_comp, printed, run, first>>

\* assign_files_to_components and generate_file_deps called once more on the
\* project the first calls have filled.
RunAgain ==
    /\ pc = "print"
    /\ i_comp = 1
    /\ run = 1
    /\ first' = [files |-> files, components |-> components]
    /\ run' = 2
    /\ i_file' = 1
    /\ pc' = IF Len(files) = 0 THEN "index" ELSE "assign"
    /\ UNCHANGED <<input, source, i_walk, components, files, diags, path_to_files, i_inc,
                   i_comp, printed>>

-----------------------------------------------------------------------------
Init ==
    /\ input \in Inputs
    /\ source = << >>
    /\ pc = "walk"
    /\ i_walk = 1
    /\ components = << >>
    /\ files = << >>
    /\ diags = << >>
    /\ path_to_files = << >>
    /\ i_file = 1
    /\ i_inc = 1
    /\ i_comp = 1
    /\ printed = << >>
    /\ run = 1
    /\ first = << >>

\* main: read_files, assign_files_to_components, generate_file_deps,
\* print_components.
Next ==
    \/ VisitIgnored
    \/ Visit
    \/ AssignFile
    \/ GenerateIndex
    \/ ResolveInclude
    \/ PrintComponent
    \/ PrintPanics

Spec == Init /\ [][Next]_vars

\* main with the two passes run a second time before printing.
NextTwice == Next \/ RunAgain

SpecTwice == Init /\ [][NextTwice]_vars

-----------------------------------------------------------------------------
\* Vocabulary of the properties.

Range(s) == {s[k] : k \in 1..Len(s)}

Count(s, x) == Cardinality({k \in 1..Len(s) : s[k] = x})

FileIds == 1..Len(files)

ComponentIds == 1..Len(components)

\* assign_files_to_components has returned, and was called once.
AssignedOnce == run = 1 /\ pc \in {"index", "deps", "print", "done", "panic"}

\* generate_file_deps has returned, and was called once.
ResolvedOnce == run = 1 /\ pc \in {"print", "done", "panic"}

\* d is a directory above the file at path p: p is d, a "/", and more.
IsAncestorDir(d, p) ==
    IF d = EMPTY THEN Len(p) > 0
    ELSE Len(p) > Len(d) + 1 /\ HasPrefix(p, d \o SLASH)

ComponentPaths == {components[c].path : c \in ComponentIds}

FileAt(p) == CHOOSE f \in FileIds : files[f].path = p

HasFileAt(p) == \E f \in FileIds : files[f].path = p

-----------------------------------------------------------------------------
\* C1: after assign_files_to_components every File has a non-nil component,
\* stands exactly once in the file list of that Component and in the file
\* list of no other Component.
C1_EveryFileInExactlyOneComponent ==
    AssignedOnce =>
        \A f \in FileIds :
            /\ files[f].component # NIL
            /\ \A c \in ComponentIds :
                 Count(components[c].files, f) = IF c = files[f].component THEN 1 ELSE 0

\* C2: a File is assigned exactly when some Component path is a directory
\* above it, and its owner is then the Component at the deepest such directory:
\* never a shallower one, never one whose path is only a string prefix.
C2_DeepestAncestorOwns ==
    AssignedOnce =>
        \A f \in FileIds :
            LET above == {d \in ComponentPaths : IsAncestorDir(d, files[f].path)}
            IN  IF above = {} THEN files[f].component = NIL
                ELSE /\ files[f].component # NIL
                     /\ components[files[f].component].path \in above
                     /\ \A d \in above :
                          Len(d) <= Len(components[files[f].component].path)

\* C2 witness: with Components at "", "a" and "a/b", a/b/c/d.h is owned by
\* "a/b" and a/bc/x.h by "a".
C2_Witness ==
    /\ AssignedOnce
    /\ {EMPTY, n_a, J(n_a, n_b)} \subseteq ComponentPaths
    /\ HasFileAt(J(J(J(n_a, n_b), n_c), n_dh))
    /\ HasFileAt(J(J(n_a, n_bc), n_xh))
    /\ files[FileAt(J(J(J(n_a, n_b), n_c), n_dh))].component # NIL
    /\ files[FileAt(J(J(n_a, n_bc), n_xh))].component # NIL
    /\ components[files[FileAt(J(J(J(n_a, n_b), n_c), n_dh))].component].path
         = J(n_a, n_b)
    /\ components[files[FileAt(J(J(n_a, n_bc), n_xh))].component].path = n_a

\* C8: a File that matches no Component is reported by assignment; it is not
\* carried into resolution and printing with a nil component.
C8_UnmatchedFileSurfaced ==
    (pc \in {"index", "deps", "print", "done"}) =>
        \A f \in FileIds :
            \/ files[f].component # NIL
            \/ \E k \in 1..Len(diags) :
                 diags[k][1] = "unassigned" /\ diags[k][2] = files[f].path

-----------------------------------------------------------------------------
\* The include string the next ResolveInclude step resolves, its file, and the
\* Files it names: those whose path is the string, or ends with "/" and the
\* string.

Including == i_file

IncludeString == files[i_file].include_paths[i_inc]

Named(s) ==
    {g \in FileIds : files[g].path = s \/ HasSuffix(files[g].path, SLASH \o s)}

SameComponent(f, g) == files[f].component = files[g].component

LinksUnchanged ==
    \A g \in FileIds :
        /\ files'[g].outgoing_links = files[g].outgoing_links
        /\ files'[g].incoming_links = files[g].incoming_links

\* C3: an include string that names a File of the including File's own
\* Component adds no link to any File, in either direction.
C3_SameComponentAddsNoEdge ==
    [][(pc = "deps" /\ \E g \in Named(IncludeString) : SameComponent(Including, g))
          => LinksUnchanged]_vars

\* C3 witness: an include string was resolved that names a File of the
\* including File's Component and a File of another Component, and the
\* including File has no link to either.
C3_Witness ==
    /\ ResolvedOnce
    /\ \E f \in FileIds : \E k \in 1..Len(files[f].include_paths) :
         \E g, h \in Named(files[f].include_paths[k]) :
            /\ files[f].component # NIL
            /\ SameComponent(f, g)
            /\ files[h].component # NIL
            /\ ~SameComponent(f, h)
            /\ files[f].outgoing_links = << >>
            /\ files[h].incoming_links = << >>

\* C4: an include string that names Files, none of them in the including
\* File's Component, adds exactly one outgoing link to each File it names and
\* to no other File; the links of the other Files' outgoing lists stay.
C4_CrossComponentFanOut ==
    [][(pc = "deps" /\ Named(IncludeString) # {}
          /\ \A g \in Named(IncludeString) : ~SameComponent(Including, g))
          => /\ \A g \in FileIds :
                  Count(files'[Including].outgoing_links, g)
                    = Count(files[Including].outgoing_links, g)
                      + (IF g \in Named(IncludeString) THEN 1 ELSE 0)
             /\ Len(files'[Including].outgoing_links)
                  = Len(files[Including].outgoing_links)
                    + Cardinality(Named(IncludeString))
             /\ \A g \in FileIds \ {Including} :
                  files'[g].outgoing_links = files[g].outgoing_links]_vars

\* C4 witness: one include string of a File gave it links to two Files of two
\* other Components, by a partial path or a bare name.
C4_Witness ==
    /\ ResolvedOnce
    /\ \E f \in FileIds :
         /\ Len(files[f].include_paths) = 1
         /\ Cardinality(Range(files[f].outgoing_links)) >= 2
         /\ \E g, h \in Range(files[f].outgoing_links) :
              /\ files[g].component # NIL
              /\ files[h].component # NIL
              /\ files[f].component # NIL
              /\ ~SameComponent(g, h)

\* C5: in every state between two include strings, b stands in a's outgoing
\* links as often as a stands in b's incoming links.
C5_EdgeSymmetry ==
    \A a \in FileIds : \A b \in FileIds :
        Count(files[a].outgoing_links, b) = Count(files[b].incoming_links, a)

\* C5 witness: a link is recorded while includes are still being resolved.
C5_Witness ==
    /\ pc = "deps"
    /\ \E a \in FileIds : files[a].outgoing_links # << >>

\* C10: every recorded link joins two Files with different owners, so no File
\* links to itself or to a File of its Component, and where both owners exist
\* their paths differ: the filter of linked_components keeps the link.
C10_LinksCrossComponents ==
    \A f \in FileIds :
        \A g \in Range(files[f].outgoing_links) \cup Range(files[f].incoming_links) :
            /\ g # f
            /\ files[g].component # files[f].component
            /\ (files[g].component # NIL /\ files[f].component # NIL)
                 => components[files[g].component].path
                      # components[files[f].component].path

\* C10 witness: a File that includes a name found in its own Component and
\* elsewhere, next to a File that has a link.
C10_Witness ==
    /\ ResolvedOnce
    /\ \E f \in FileIds : \E k \in 1..Len(files[f].include_paths) :
         /\ \E g \in Named(files[f].include_paths[k]) : SameComponent(f, g)
         /\ \E h \in FileIds : h # f /\ files[h].outgoing_links # << >>

-----------------------------------------------------------------------------
\* The second run.

SecondRunOver == run = 2 /\ pc \in {"print", "done", "panic"}

-----------------------------------------------------------------------------
\* Include lines, read character by character.

IsIncludeLine(l) == Len(l) >= Len(INCLUDE) /\ \A k \in 1..Len(INCLUDE) : l[k] = INCLUDE[k]

OpenerAt(l) == {k \in 1..Len(l) : l[k] = "\"" \/ l[k] = "<"}

CloserAt(l) == {k \in 1..Len(l) : l[k] = "\"" \/ l[k] = ">"}

\* An opening delimiter with a closing delimiter after it.
HasDelimiterPair(l) == \E a \in OpenerAt(l) : \E b \in CloserAt(l) : a < b

\* What stands between the first opening and the last closing delimiter.
Between(l) ==
    LET a == Min(OpenerAt(l))
        b == Max(CloserAt(l))
    IN  [k \in 1..(b - a - 1) |-> l[a + k]]

HasForeignToken(t) ==
    \/ \E k \in 1..Len(t) : t[k] = "\\"
    \/ \E k \in 1..(Len(t) - 1) : t[k] = "." /\ t[k + 1] = "."

MalformedLine(l) ==
    IsIncludeLine(l) /\ (HasDelimiterPair(l) => HasForeignToken(Between(l)))

WellFormedLine(l) == IsIncludeLine(l) /\ ~MalformedLine(l)

ExpectedIncludes(lines) ==
    LET w == SelectSeq(lines, WellFormedLine)
    IN  [k \in 1..Len(w) |-> Between(w[k])]

MalformedCount(lines) == Len(SelectSeq(lines, MalformedLine))

MalformedDiags(path) ==
    Cardinality({k \in 1..Len(diags) : diags[k][1] = "malformed" /\ diags[k][2] = path})

\* C7: a malformed include line adds nothing to the File's inclusion list, so
\* its string is never looked up and gives no link; it gives one
\* malformed-include diagnostic if warn_malformed is set and none otherwise;
\* the lines after it are extracted as usual.
C7_MalformedIncludeRejected ==
    /\ \A f \in FileIds :
         /\ files[f].include_paths = ExpectedIncludes(source[f].lines)
         /\ MalformedDiags(source[f].path)
              = IF input.flags.warn_malformed THEN MalformedCount(source[f].lines)
                ELSE 0
         /\ (\A k \in 1..Len(source[f].lines) : ~WellFormedLine(source[f].lines[k]))
              => files[f].outgoing_links = << >>
    /\ \A f \in FileIds : \A k \in 1..Len(files[f].include_paths) :
         ~HasForeignToken(files[f].include_paths[k])
    /\ \A k \in 1..Len(diags) : diags[k][1] = "missing" => ~HasForeignToken(diags[k][3])

\* C7 witness: a file whose first line is a malformed include and whose
\* second line is a well-formed one was extracted with warn_malformed set:
\* one diagnostic, one inclusion string, and the links of that string.
C7_Witness ==
    /\ pc = "done"
    /\ input.flags.warn_malformed
    /\ \E f \in FileIds :
         /\ Len(source[f].lines) = 2
         /\ MalformedLine(source[f].lines[1])
         /\ WellFormedLine(source[f].lines[2])
         /\ Len(files[f].include_paths) = 1
         /\ MalformedDiags(source[f].path) = 1
         /\ files[f].outgoing_links # << >>

-----------------------------------------------------------------------------
\* Aggregation.

Owner(f) == files[f].component

\* The Dependency records of list `deps` for Component d.
RecordsFor(deps, d) == {x \in deps : x.component = d}

\* deps holds one Dependency for d with exactly the edges counted by n, or
\* none if n counts no edge.
HoldsExactly(deps, d, n(_, _)) ==
    IF \E g \in FileIds : \E f \in FileIds : n(g, f) > 0
    THEN /\ Cardinality(RecordsFor(deps, d)) = 1
         /\ \A x \in RecordsFor(deps, d) :
              /\ \A g \in FileIds : \A f \in FileIds :
                   Count(x.edges, [from |-> g, to |-> f]) = n(g, f)
              /\ \A k \in 1..Len(x.edges) :
                   x.edges[k].from \in FileIds /\ x.edges[k].to \in FileIds
    ELSE RecordsFor(deps, d) = {}

AggregatesRight(c) ==
    LET r == linked_components(files, components, c)
        NoEdge(g, f) == 0
    IN  /\ \A x \in r.in \cup r.out : x.component \in ComponentIds
        /\ HoldsExactly(r.in, c, NoEdge)
        /\ HoldsExactly(r.out, c, NoEdge)
        /\ \A d \in ComponentIds \ {c} :
             LET In(g, f) == IF Owner(g) = d /\ Owner(f) = c
                             THEN Count(files[f].incoming_links, g) ELSE 0
                 Out(f, g) == IF Owner(g) = d /\ Owner(f) = c
                              THEN Count(files[f].outgoing_links, g) ELSE 0
             IN  /\ HoldsExactly(r.in, d, In)
                 /\ HoldsExactly(r.out, d, Out)
                 /\ \A e \in [from : FileIds, to : FileIds] :
                      LET ro == RecordsFor(r.out, d)
                          ri == RecordsFor(
                                  linked_components(files, components, d).in, c)
                      IN  /\ (ro = {}) = (ri = {})
                          /\ \A x \in ro : \A y \in ri :
                               Count(x.edges, e) = Count(y.edges, e)

\* C9: once the links are recorded, linked_components returns for every
\* Component c one incoming Dependency per other Component with a File linking
\* into c, holding exactly those links, none else, and the mirror image going
\* out; d is in c's outgoing list with the edges c is in d's incoming list with.
C9_AggregationPerComponent ==
    ResolvedOnce =>
        \A c \in ComponentIds :
            /\ \A d \in ComponentIds : ~Dereferences(files, components, d)
            /\ AggregatesRight(c)

\* The aggregation is right wherever linked_components returns: C9 fails only
\* where a File without a Component is linked to a File of a Component.
AggregationWhereItReturns ==
    (ResolvedOnce /\ \A d \in ComponentIds : ~Dereferences(files, components, d))
        => \A c \in ComponentIds : AggregatesRight(c)

====
